---------------------------- MODULE Spec2Model ----------------------------
(***************************************************************************)
(* A model of go-lockable's Lockable[T]: a registry of per-key            *)
(* reader/writer locks (versionedMutex) created on demand and removed     *)
(* from the map once completedVersion catches up with currentVersion.     *)
(*                                                                         *)
(* Every goroutine is a thread with a program counter; each step is one   *)
(* statement (or one run of statements under locksMu that touches a       *)
(* single shared object) of the Go source.  sync.Mutex and sync.RWMutex   *)
(* are modelled by their documented contract: Lock blocks while the lock  *)
(* is read- or write-held, RLock blocks while a writer holds or waits,    *)
(* Unlock / RUnlock of a lock not held in that mode is a fatal run-time   *)
(* error that ends the process.                                           *)
(***************************************************************************)
EXTENDS Naturals, Sequences, FiniteSets, TLC

(***************************************************************************)
(* Bounds of the model.                                                    *)
(***************************************************************************)
\* acquisitions (LockKey, RLockKey, ...During) the goroutines may start in all
MaxAcq == 3
\* the same, in the specifications with more kinds of call
MaxAcqLow == 2
\* releases with no acquisition behind them the goroutines may start in all
MaxStray == 1
\* acquisitions in the specification with the Map's methods
MaxAcqMap == 1
\* calls of Map methods the goroutines may start in all
MaxMapOps == 2

\* TestLockableMap: the writes per key (100 in the test)
Writes == 2

Threads == {"t1", "t2", "t3"}
Keys == {"a", "b"}
Modes == {"W", "R"}
\* how fn can end: (value, nil), (nil, err), or a panic
Outcomes == {"value", "error", "panic"}

\* TestLockableMap: the main goroutine, and the keys it goes through
Main == "t1"
TestKeys == <<"a", "b">>
\* the values passed to Store
Vals == 0..(Writes - 1)
\* the Map methods that take mu exclusively, and those that take it shared
WriteOps == {"Store", "Delete"}
ReadOps == {"Load", "Range"}

\* the nil *versionedMutex (heap addresses start at 1)
nil == 0
\* no key: the value of a key variable outside a call
NoKey == "-"

VARIABLES
    locks,      \* Lockable.locks: map from key to the address of its versionedMutex
    heap,       \* the versionedMutex objects allocated so far, by address
    locksMu,    \* Lockable.locksMu: the goroutine holding it, or "free"
    pc,         \* where each goroutine is
    call,       \* the public call in progress: "none", "plain" (LockKey/RLockKey
                \* ... UnlockKey/RUnlockKey), "during" (LockKeyDuring/RLockKeyDuring),
                \* "stray" (a release with no acquisition behind it), "again" (a
                \* release repeated right after the matching one returned),
                \* "reentrant" (LockKey on a key the goroutine holds)
    key,        \* the key argument of the call in progress
    mode,       \* "W" for LockKey/UnlockKey, "R" for RLockKey/RUnlockKey
    vMu,        \* LockKey/RLockKey's vMu: the object lockKey returned
    uMu,        \* UnlockKey/RUnlockKey's vMu: the object unlockKey returned
    ok,         \* unlockKey's second result
    tmp,        \* fn's local copy of the shared counter
    fnOut,      \* how fn ended
    ret,        \* what the ...During call hands back to its caller
    ilKey,      \* IsLocked's key argument
    ilRet,      \* where an IsLocked call returns to: "idle" or "cs"
    ilRes,      \* IsLocked's result
    acq,        \* acquisitions started so far
    stray,      \* releases with no acquisition behind them started so far
    rel,        \* unlockKey calls of the call in progress that found the key
    counter,    \* the shared counter fn increments, one per key
    incs,       \* increments fn has completed, per key
    fatal,      \* the Go runtime has ended the process (fatal error)
    internalMap,\* Map.internalMap: the values stored, by key
    mu,         \* Map.mu, the RWMutex around internalMap
    mOp,        \* the Map method a goroutine is in: "Load", "Store", "Delete",
                \* "Range", or "none"
    mKey,       \* its key argument
    mVal,       \* its value argument
    mRet,       \* where the goroutine goes on when the method returns
    mRes,       \* what the last Load or Range of the goroutine saw
    mapOps,     \* calls of Map methods started so far
    loopK,      \* TestLockableMap: index of the key the outer loop is at
    loopI       \* TestLockableMap: i of the inner loop

\* the Map wrapper's own state and the locals of calls into it
mapVars == <<internalMap, mu, mOp, mKey, mVal, mRet, mRes, mapOps>>

\* the loop variables of the test's main goroutine
testVars == <<loopK, loopI>>

vars == <<locks, heap, locksMu, pc, call, key, mode, vMu, uMu, ok, tmp,
          fnOut, ret, ilKey, ilRet, ilRes, acq, stray, rel, counter, incs,
          fatal, mapVars, testVars>>

\* Lockable's state and the locals of calls into it, but for pc
lockVars == <<locks, heap, locksMu, call, key, mode, vMu, uMu, ok, tmp, fnOut,
              ret, ilKey, ilRet, ilRes, acq, stray, rel, counter, incs, fatal>>

(***************************************************************************)
(* versionedMutex and the map, as the code uses them.                      *)
(***************************************************************************)
\* &versionedMutex{currentVersion: 0, completedVersion: 0, RWMutex: sync.RWMutex{}}
NewVersionedMutex ==
    [currentVersion |-> 0, completedVersion |-> 0,
     wLocked |-> FALSE, writing |-> FALSE, readers |-> 0]

\* m[key] = o
MapStore(m, k, o) == [x \in (DOMAIN m) \cup {k} |-> IF x = k THEN o ELSE m[x]]

\* delete(m, key)
MapDelete(m, k) == [x \in (DOMAIN m) \ {k} |-> m[x]]

\* vMu, ok := l.locks[key]
MapOk(m, k) == k \in DOMAIN m
MapGet(m, k) == IF k \in DOMAIN m THEN m[k] ELSE nil

\* a lockKey that forgets to count the request
IncCurrent_Skip(vm) == vm

\* vMu.currentVersion++
IncCurrent(vm) == [vm EXCEPT !.currentVersion = @ + 1]

\* a release that counts itself twice
IncCompleted_Twice(vm) == [vm EXCEPT !.completedVersion = @ + 2]

\* vMu.completedVersion++
IncCompleted(vm) == [vm EXCEPT !.completedVersion = @ + 1]

\* a tryCleanUp that removes the entry whatever the counters say
tryCleanUp_Eager(m, k, vm) == MapDelete(m, k)

\* a tryCleanUp that never removes the entry
tryCleanUp_Never(m, k, vm) == m

\* tryCleanUp: the map after it
tryCleanUp(m, k, vm) ==
    IF vm.currentVersion = vm.completedVersion THEN MapDelete(m, k) ELSE m

\* an IsLocked with the comparison the wrong way round
IsLockedResult_Equal(m, h, k) ==
    MapOk(m, k) /\ h[m[k]].completedVersion = h[m[k]].currentVersion

\* IsLocked's result
IsLockedResult(m, h, k) ==
    MapOk(m, k) /\ h[m[k]].completedVersion # h[m[k]].currentVersion

(***************************************************************************)
(* sync.RWMutex.                                                           *)
(***************************************************************************)
\* Lock, first half: take the writers' mutex, which also stops new readers
CanAnnounce(vm) == ~vm.wLocked
\* Lock, second half: the readers that were in have left
CanWrite(vm) == vm.wLocked /\ ~vm.writing /\ vm.readers = 0
\* RLock: no writer holds the lock or waits for it
CanRead(vm) == ~vm.wLocked
\* &sync.RWMutex{}
NewRWMutex == [wLocked |-> FALSE, writing |-> FALSE, readers |-> 0]
\* Unlock / RUnlock are legal
WriteHeld(vm) == vm.writing
ReadHeld(vm) == vm.readers > 0
\* the lock after Unlock / RUnlock
RWUnlock(vm) == [vm EXCEPT !.writing = FALSE, !.wLocked = FALSE]
RWRUnlock(vm) == [vm EXCEPT !.readers = @ - 1]

(***************************************************************************)
(* The initial state: New[T]() and goroutines that have called nothing.    *)
(***************************************************************************)
Init ==
    /\ locks = [x \in {} |-> nil]
    /\ heap = <<>>
    /\ locksMu = "free"
    /\ pc = [t \in Threads |-> "idle"]
    /\ call = [t \in Threads |-> "none"]
    /\ key = [t \in Threads |-> NoKey]
    /\ mode = [t \in Threads |-> "W"]
    /\ vMu = [t \in Threads |-> nil]
    /\ uMu = [t \in Threads |-> nil]
    /\ ok = [t \in Threads |-> FALSE]
    /\ tmp = [t \in Threads |-> 0]
    /\ fnOut = [t \in Threads |-> "none"]
    /\ ret = [t \in Threads |-> "none"]
    /\ ilKey = [t \in Threads |-> NoKey]
    /\ ilRet = [t \in Threads |-> "idle"]
    /\ ilRes = [t \in Threads |-> FALSE]
    /\ acq = 0
    /\ stray = 0
    /\ rel = [t \in Threads |-> 0]
    /\ counter = [k \in Keys |-> 0]
    /\ incs = [k \in Keys |-> 0]
    /\ fatal = FALSE
    /\ internalMap = [x \in {} |-> 0]
    /\ mu = NewRWMutex
    /\ mOp = [t \in Threads |-> "none"]
    /\ mKey = [t \in Threads |-> NoKey]
    /\ mVal = [t \in Threads |-> 0]
    /\ mRet = [t \in Threads |-> "idle"]
    /\ mRes = [t \in Threads |-> [x \in {} |-> 0]]
    /\ mapOps = 0
    /\ loopK = 1
    /\ loopI = 0

\* a function that returns without its deferred l.locksMu.Unlock()
DeferredUnlock_Missing(holder) == holder

\* locksMu after the deferred l.locksMu.Unlock() of its holder
DeferredUnlock(holder) == "free"

\* goroutine t runs (the process is alive) and is at label l
At(t, l) == ~fatal /\ pc[t] = l

Goto(t, l) == pc' = [pc EXCEPT ![t] = l]

(***************************************************************************)
(* LockKey(key) and RLockKey(key), called by the goroutine itself or as    *)
(* the first statement of LockKeyDuring / RLockKeyDuring: up to the end of *)
(* the critical section the steps are the same, and which call is running  *)
(* is recorded when the critical section ends.  A call enters lockKey,     *)
(* whose first statement is l.locksMu.Lock(): a goroutine blocked there    *)
(* is one for which this step is not enabled.                              *)
(***************************************************************************)
lockKey_Lock(t, k, m) ==
    /\ At(t, "idle")
    /\ acq < MaxAcq
    /\ locksMu = "free"
    /\ locksMu' = t
    /\ acq' = acq + 1
    /\ key' = [key EXCEPT ![t] = k]
    /\ mode' = [mode EXCEPT ![t] = m]
    /\ Goto(t, "lk_find")
    /\ UNCHANGED <<locks, heap, call, vMu, uMu, ok, tmp, fnOut, ret, ilKey,
                   ilRet, ilRes, stray, rel, counter, incs, fatal>>
    /\ UNCHANGED <<mapVars, testVars>>

LockKey(t, k) == lockKey_Lock(t, k, "W")

RLockKey(t, k) == lockKey_Lock(t, k, "R")

(***************************************************************************)
(* lockKey: find or create the key's versionedMutex and count the request, *)
(* all under locksMu.                                                      *)
(***************************************************************************)

\* vMu, ok := l.locks[key]; if !ok { vMu = &versionedMutex{...}; l.locks[key] = vMu }
lockKey_Find(t) ==
    /\ At(t, "lk_find")
    /\ IF MapOk(locks, key[t])
         THEN /\ vMu' = [vMu EXCEPT ![t] = MapGet(locks, key[t])]
              /\ UNCHANGED <<locks, heap>>
         ELSE /\ heap' = Append(heap, NewVersionedMutex)
              /\ locks' = MapStore(locks, key[t], Len(heap) + 1)
              /\ vMu' = [vMu EXCEPT ![t] = Len(heap) + 1]
    /\ Goto(t, "lk_inc")
    /\ UNCHANGED <<locksMu, call, key, mode, uMu, ok, tmp, fnOut, ret, ilKey,
                   ilRet, ilRes, acq, stray, rel, counter, incs, fatal>>
    /\ UNCHANGED <<mapVars, testVars>>

\* vMu.currentVersion++
lockKey_Inc(t) ==
    /\ At(t, "lk_inc")
    /\ heap' = [heap EXCEPT ![vMu[t]] = IncCurrent(@)]
    /\ Goto(t, "lk_ret")
    /\ UNCHANGED <<locks, locksMu, call, key, mode, vMu, uMu, ok, tmp, fnOut,
                   ret, ilKey, ilRet, ilRes, acq, stray, rel, counter, incs,
                   fatal>>
    /\ UNCHANGED <<mapVars, testVars>>

\* a LockKey that takes the lock shared, as RLockKey does
LockCall_Shared(m) == "RLock"

\* what the caller of lockKey does with vMu: LockKey calls vMu.Lock(),
\* RLockKey calls vMu.RLock()
LockCall(m) == IF m = "W" THEN "Lock" ELSE "RLock"

\* return vMu, with the deferred l.locksMu.Unlock(); the caller goes on to
\* vMu.Lock() or vMu.RLock()
lockKey_Return(t) ==
    /\ At(t, "lk_ret")
    /\ locksMu' = DeferredUnlock(t)
    /\ Goto(t, LockCall(mode[t]))
    /\ UNCHANGED <<locks, heap, call, key, mode, vMu, uMu, ok, tmp, fnOut, ret,
                   ilKey, ilRet, ilRes, acq, stray, rel, counter, incs, fatal>>
    /\ UNCHANGED <<mapVars, testVars>>

(***************************************************************************)
(* vMu.Lock() and vMu.RLock().                                             *)
(***************************************************************************)
Lock_Announce(t) ==
    /\ At(t, "Lock")
    /\ CanAnnounce(heap[vMu[t]])
    /\ heap' = [heap EXCEPT ![vMu[t]].wLocked = TRUE]
    /\ Goto(t, "LockWait")
    /\ UNCHANGED <<locks, locksMu, call, key, mode, vMu, uMu, ok, tmp, fnOut,
                   ret, ilKey, ilRet, ilRes, acq, stray, rel, counter, incs,
                   fatal>>
    /\ UNCHANGED <<mapVars, testVars>>

Lock_Grant(t) ==
    /\ At(t, "LockWait")
    /\ CanWrite(heap[vMu[t]])
    /\ heap' = [heap EXCEPT ![vMu[t]].writing = TRUE]
    /\ Goto(t, "cs")
    /\ UNCHANGED <<locks, locksMu, call, key, mode, vMu, uMu, ok, tmp, fnOut,
                   ret, ilKey, ilRet, ilRes, acq, stray, rel, counter, incs,
                   fatal>>
    /\ UNCHANGED <<mapVars, testVars>>

RLock(t) ==
    /\ At(t, "RLock")
    /\ CanRead(heap[vMu[t]])
    /\ heap' = [heap EXCEPT ![vMu[t]].readers = @ + 1]
    /\ Goto(t, "cs")
    /\ UNCHANGED <<locks, locksMu, call, key, mode, vMu, uMu, ok, tmp, fnOut,
                   ret, ilKey, ilRet, ilRes, acq, stray, rel, counter, incs,
                   fatal>>
    /\ UNCHANGED <<mapVars, testVars>>

(***************************************************************************)
(* The critical section: fn of ...During, or the caller's own code between *)
(* LockKey/RLockKey and the matching release.  A writer reads the key's    *)
(* shared counter and writes it back incremented; a reader only reads it.  *)
(***************************************************************************)
fn_Read(t) ==
    /\ At(t, "cs")
    /\ tmp' = [tmp EXCEPT ![t] = counter[key[t]]]
    /\ Goto(t, "cs2")
    /\ UNCHANGED <<locks, heap, locksMu, call, key, mode, vMu, uMu, ok, fnOut,
                   ret, ilKey, ilRet, ilRes, acq, stray, rel, counter, incs,
                   fatal>>
    /\ UNCHANGED <<mapVars, testVars>>

\* a ...During that calls the release after fn instead of deferring it: a
\* panic in fn skips it
AfterFn_NoDefer(out) == IF out = "panic" THEN "return" ELSE "unlockKey"

\* where control goes when fn has ended with outcome out: the deferred
\* l.UnlockKey(key) / l.RUnlockKey(key) runs on every exit path
AfterFn(out) == "unlockKey"

\* what ...During hands to its caller: return fn(), or fn's panic going up
DuringResult(out) == out

\* the critical section ends: fn of LockKeyDuring / RLockKeyDuring ends with
\* outcome out (c = "during"), or the goroutine's own code ends and calls
\* UnlockKey / RUnlockKey (c = "plain", out = "none")
cs_Finish(t, c, out) ==
    /\ At(t, "cs2")
    /\ IF mode[t] = "W"
         THEN /\ counter' = [counter EXCEPT ![key[t]] = tmp[t] + 1]
              /\ incs' = [incs EXCEPT ![key[t]] = @ + 1]
         ELSE UNCHANGED <<counter, incs>>
    /\ call' = [call EXCEPT ![t] = c]
    /\ fnOut' = [fnOut EXCEPT ![t] = out]
    /\ Goto(t, AfterFn(out))
    /\ UNCHANGED <<locks, heap, locksMu, key, mode, vMu, uMu, ok, tmp, ret,
                   ilKey, ilRet, ilRes, acq, stray, rel, fatal>>
    /\ UNCHANGED <<mapVars, testVars>>

fn_Finish(t, out) == cs_Finish(t, "during", out)

own_Finish(t) == cs_Finish(t, "plain", "none")

(***************************************************************************)
(* unlockKey: look the key up again, count the completion and clean up,    *)
(* all under locksMu.                                                      *)
(***************************************************************************)
\* l.locksMu.Lock()
unlockKey_Lock(t) ==
    /\ At(t, "unlockKey")
    /\ locksMu = "free"
    /\ locksMu' = t
    /\ Goto(t, "ul_find")
    /\ UNCHANGED <<locks, heap, call, key, mode, vMu, uMu, ok, tmp, fnOut, ret,
                   ilKey, ilRet, ilRes, acq, stray, rel, counter, incs, fatal>>
    /\ UNCHANGED <<mapVars, testVars>>

\* vMu, ok := l.locks[key]; if !ok { return nil, false }
unlockKey_Find(t) ==
    /\ At(t, "ul_find")
    /\ uMu' = [uMu EXCEPT ![t] = MapGet(locks, key[t])]
    /\ ok' = [ok EXCEPT ![t] = MapOk(locks, key[t])]
    /\ Goto(t, IF MapOk(locks, key[t]) THEN "ul_inc" ELSE "ul_ret")
    /\ UNCHANGED <<locks, heap, locksMu, call, key, mode, vMu, tmp, fnOut, ret,
                   ilKey, ilRet, ilRes, acq, stray, rel, counter, incs, fatal>>
    /\ UNCHANGED <<mapVars, testVars>>

\* vMu.completedVersion++
unlockKey_Inc(t) ==
    /\ At(t, "ul_inc")
    /\ heap' = [heap EXCEPT ![uMu[t]] = IncCompleted(@)]
    /\ rel' = [rel EXCEPT ![t] = @ + 1]
    /\ Goto(t, "ul_clean")
    /\ UNCHANGED <<locks, locksMu, call, key, mode, vMu, uMu, ok, tmp, fnOut,
                   ret, ilKey, ilRet, ilRes, acq, stray, counter, incs, fatal>>
    /\ UNCHANGED <<mapVars, testVars>>

\* l.tryCleanUp(key, vMu)
unlockKey_CleanUp(t) ==
    /\ At(t, "ul_clean")
    /\ locks' = tryCleanUp(locks, key[t], heap[uMu[t]])
    /\ Goto(t, "ul_ret")
    /\ UNCHANGED <<heap, locksMu, call, key, mode, vMu, uMu, ok, tmp, fnOut,
                   ret, ilKey, ilRet, ilRes, acq, stray, rel, counter, incs,
                   fatal>>
    /\ UNCHANGED <<mapVars, testVars>>

\* an UnlockKey that ignores ok
MustUnlock_Always(found) == TRUE

\* the release keeps the books and leaves the lock locked
MustUnlock_Never(found) == FALSE

\* whether UnlockKey / RUnlockKey goes on to unlock: if !ok { return }
MustUnlock(found) == found

\* what UnlockKey / RUnlockKey does with vMu: vMu.Unlock() / vMu.RUnlock()
UnlockCall(m) == IF m = "W" THEN "Unlock" ELSE "RUnlock"

\* return vMu, true (or nil, false), with the deferred l.locksMu.Unlock();
\* UnlockKey / RUnlockKey returns at once when !ok
unlockKey_Return(t) ==
    /\ At(t, "ul_ret")
    /\ locksMu' = DeferredUnlock(t)
    /\ IF MustUnlock(ok[t])
         THEN /\ Goto(t, UnlockCall(mode[t]))
              /\ UNCHANGED ret
         ELSE /\ Goto(t, "return")
              /\ ret' = [ret EXCEPT ![t] = DuringResult(fnOut[t])]
    /\ UNCHANGED <<locks, heap, call, key, mode, vMu, uMu, ok, tmp, fnOut,
                   ilKey, ilRet, ilRes, acq, stray, rel, counter, incs, fatal>>
    /\ UNCHANGED <<mapVars, testVars>>

(***************************************************************************)
(* vMu.Unlock() and vMu.RUnlock() on the object unlockKey returned.  On a  *)
(* lock not held in that mode the runtime ends the process.                *)
(***************************************************************************)
Unlock(t) ==
    /\ At(t, "Unlock")
    /\ IF uMu[t] # nil /\ WriteHeld(heap[uMu[t]])
         THEN /\ heap' = [heap EXCEPT ![uMu[t]] = RWUnlock(@)]
              /\ ret' = [ret EXCEPT ![t] = DuringResult(fnOut[t])]
              /\ Goto(t, "return")
              /\ UNCHANGED fatal
         ELSE /\ fatal' = TRUE
              /\ UNCHANGED <<heap, ret, pc>>
    /\ UNCHANGED <<locks, locksMu, call, key, mode, vMu, uMu, ok, tmp, fnOut,
                   ilKey, ilRet, ilRes, acq, stray, rel, counter, incs>>
    /\ UNCHANGED <<mapVars, testVars>>

RUnlock(t) ==
    /\ At(t, "RUnlock")
    /\ IF uMu[t] # nil /\ ReadHeld(heap[uMu[t]])
         THEN /\ heap' = [heap EXCEPT ![uMu[t]] = RWRUnlock(@)]
              /\ ret' = [ret EXCEPT ![t] = DuringResult(fnOut[t])]
              /\ Goto(t, "return")
              /\ UNCHANGED fatal
         ELSE /\ fatal' = TRUE
              /\ UNCHANGED <<heap, ret, pc>>
    /\ UNCHANGED <<locks, locksMu, call, key, mode, vMu, uMu, ok, tmp, fnOut,
                   ilKey, ilRet, ilRes, acq, stray, rel, counter, incs>>
    /\ UNCHANGED <<mapVars, testVars>>

\* the call is over: its frame is gone and the goroutine is free to call again
Return(t) ==
    /\ At(t, "return")
    /\ Goto(t, "idle")
    /\ call' = [call EXCEPT ![t] = "none"]
    /\ key' = [key EXCEPT ![t] = NoKey]
    /\ mode' = [mode EXCEPT ![t] = "W"]
    /\ vMu' = [vMu EXCEPT ![t] = nil]
    /\ uMu' = [uMu EXCEPT ![t] = nil]
    /\ ok' = [ok EXCEPT ![t] = FALSE]
    /\ tmp' = [tmp EXCEPT ![t] = 0]
    /\ fnOut' = [fnOut EXCEPT ![t] = "none"]
    /\ ret' = [ret EXCEPT ![t] = "none"]
    /\ rel' = [rel EXCEPT ![t] = 0]
    /\ UNCHANGED <<locks, heap, locksMu, ilKey, ilRet, ilRes, acq, stray,
                   counter, incs, fatal>>
    /\ UNCHANGED <<mapVars, testVars>>

(***************************************************************************)
(* IsLocked, called by a goroutine that holds nothing or from inside a     *)
(* critical section.                                                       *)
(***************************************************************************)
\* an IsLocked that also takes the key's lock, shared, to look at it
IsLockedEnters_KeyLock(m, h, k) ==
    locksMu = "free" /\ (MapOk(m, k) => CanRead(h[m[k]]))

\* what IsLocked needs to get in: l.locksMu.Lock() and nothing else,
\* whatever the state of the key's entry
IsLockedEnters(m, h, k) == locksMu = "free"

\* the call, up to l.locksMu.Lock()
IsLocked_Lock(t, k) ==
    /\ ~fatal
    /\ pc[t] \in {"idle", "cs"}
    /\ IsLockedEnters(locks, heap, k)
    /\ locksMu' = t
    /\ ilRet' = [ilRet EXCEPT ![t] = pc[t]]
    /\ ilKey' = [ilKey EXCEPT ![t] = k]
    /\ Goto(t, "il_read")
    /\ UNCHANGED <<locks, heap, call, key, mode, vMu, uMu, ok, tmp, fnOut, ret,
                   ilRes, acq, stray, rel, counter, incs, fatal>>
    /\ UNCHANGED <<mapVars, testVars>>

\* keyLock, ok := l.locks[key]; the result is ok && completed != current
IsLocked_Read(t) ==
    /\ At(t, "il_read")
    /\ ilRes' = [ilRes EXCEPT ![t] = IsLockedResult(locks, heap, ilKey[t])]
    /\ Goto(t, "il_ret")
    /\ UNCHANGED <<locks, heap, locksMu, call, key, mode, vMu, uMu, ok, tmp,
                   fnOut, ret, ilKey, ilRet, acq, stray, rel, counter, incs,
                   fatal>>
    /\ UNCHANGED <<mapVars, testVars>>

\* return, with the deferred l.locksMu.Unlock()
IsLocked_Return(t) ==
    /\ At(t, "il_ret")
    /\ locksMu' = DeferredUnlock(t)
    /\ Goto(t, ilRet[t])
    /\ ilRet' = [ilRet EXCEPT ![t] = "idle"]
    /\ ilKey' = [ilKey EXCEPT ![t] = NoKey]
    /\ ilRes' = [ilRes EXCEPT ![t] = FALSE]
    /\ UNCHANGED <<locks, heap, call, key, mode, vMu, uMu, ok, tmp, fnOut, ret,
                   acq, stray, rel, counter, incs, fatal>>
    /\ UNCHANGED <<mapVars, testVars>>

(***************************************************************************)
(* Releases with no acquisition behind them.                               *)
(***************************************************************************)
Release(t, k, m, c) ==
    /\ stray < MaxStray
    /\ stray' = stray + 1
    /\ call' = [call EXCEPT ![t] = c]
    /\ key' = [key EXCEPT ![t] = k]
    /\ mode' = [mode EXCEPT ![t] = m]
    /\ vMu' = [vMu EXCEPT ![t] = nil]
    /\ uMu' = [uMu EXCEPT ![t] = nil]
    /\ ok' = [ok EXCEPT ![t] = FALSE]
    /\ tmp' = [tmp EXCEPT ![t] = 0]
    /\ fnOut' = [fnOut EXCEPT ![t] = "none"]
    /\ ret' = [ret EXCEPT ![t] = "none"]
    /\ rel' = [rel EXCEPT ![t] = 0]
    /\ Goto(t, "unlockKey")
    /\ UNCHANGED <<locks, heap, locksMu, ilKey, ilRet, ilRes, acq, counter,
                   incs, fatal>>
    /\ UNCHANGED <<mapVars, testVars>>

\* UnlockKey(k) by a goroutine that holds nothing
StrayUnlockKey(t, k) == At(t, "idle") /\ Release(t, k, "W", "stray")

\* RUnlockKey(k) by a goroutine that holds nothing
StrayRUnlockKey(t, k) == At(t, "idle") /\ Release(t, k, "R", "stray")

\* the release that has just returned, called a second time
ReleaseAgain(t) ==
    /\ At(t, "return")
    /\ call[t] \in {"plain", "during"}
    /\ Release(t, key[t], mode[t], "again")

(***************************************************************************)
(* Map: Load, Store, Delete and Range.  Each takes m.mu (shared for Load   *)
(* and Range, exclusive for Store and Delete), touches internalMap and     *)
(* returns with the deferred unlock of m.mu.  They are called by a         *)
(* goroutine that holds no key or from inside a critical section.          *)
(***************************************************************************)
\* a Map method that first takes the key's lock of the registry
MapEnters_KeyLock(w, m, h, k, op) ==
    /\ IF op \in WriteOps THEN CanAnnounce(w) ELSE CanRead(w)
    /\ MapOk(m, k) => ~h[m[k]].wLocked

\* what a Map method needs to get past its first statement, m.mu.Lock() or
\* m.mu.RLock(): m.mu alone, whatever the registry's map m and heap h hold
\* for the key
MapEnters(w, m, h, k, op) ==
    IF op \in WriteOps THEN CanAnnounce(w) ELSE CanRead(w)

\* the call of a Map method
MapCall(t, op, k, v) ==
    /\ ~fatal
    /\ pc[t] \in {"idle", "cs"}
    /\ mapOps < MaxMapOps
    /\ mapOps' = mapOps + 1
    /\ mOp' = [mOp EXCEPT ![t] = op]
    /\ mKey' = [mKey EXCEPT ![t] = k]
    /\ mVal' = [mVal EXCEPT ![t] = v]
    /\ mRet' = [mRet EXCEPT ![t] = pc[t]]
    /\ Goto(t, "m_lock")
    /\ UNCHANGED <<lockVars, internalMap, mu, mRes, testVars>>

Store(t, k, v) == MapCall(t, "Store", k, v)

Delete(t, k) == MapCall(t, "Delete", k, 0)

Load(t, k) == MapCall(t, "Load", k, 0)

Range(t) == MapCall(t, "Range", NoKey, 0)

\* m.mu.Lock(), first half, or m.mu.RLock()
Map_Lock(t) ==
    /\ At(t, "m_lock")
    /\ MapEnters(mu, locks, heap, mKey[t], mOp[t])
    /\ IF mOp[t] \in WriteOps
         THEN /\ mu' = [mu EXCEPT !.wLocked = TRUE]
              /\ Goto(t, "m_wait")
         ELSE /\ mu' = [mu EXCEPT !.readers = @ + 1]
              /\ Goto(t, "m_body")
    /\ UNCHANGED <<lockVars, internalMap, mOp, mKey, mVal, mRet, mRes, mapOps,
                   testVars>>

\* m.mu.Lock(), second half
Map_Grant(t) ==
    /\ At(t, "m_wait")
    /\ CanWrite(mu)
    /\ mu' = [mu EXCEPT !.writing = TRUE]
    /\ Goto(t, "m_body")
    /\ UNCHANGED <<lockVars, internalMap, mOp, mKey, mVal, mRet, mRes, mapOps,
                   testVars>>

\* what Load hands back, (v, ok), as the entries it saw: the key's, if any
LoadResult(im, k) == [x \in (DOMAIN im) \cap {k} |-> im[x]]

\* what Range shows to fn: every entry
RangeResult(im) == im

\* the body of the method
Map_Body(t) ==
    /\ At(t, "m_body")
    /\ internalMap' =
          CASE mOp[t] = "Store" -> MapStore(internalMap, mKey[t], mVal[t])
            [] mOp[t] = "Delete" -> MapDelete(internalMap, mKey[t])
            [] OTHER -> internalMap
    /\ mRes' =
          CASE mOp[t] = "Load" ->
                  [mRes EXCEPT ![t] = LoadResult(internalMap, mKey[t])]
            [] mOp[t] = "Range" ->
                  [mRes EXCEPT ![t] = RangeResult(internalMap)]
            [] OTHER -> mRes
    /\ Goto(t, "m_ret")
    /\ UNCHANGED <<lockVars, mu, mOp, mKey, mVal, mRet, mapOps, testVars>>

\* return, with the deferred m.mu.Unlock() or m.mu.RUnlock()
Map_Return(t) ==
    /\ At(t, "m_ret")
    /\ mu' = IF mOp[t] \in WriteOps THEN RWUnlock(mu) ELSE RWRUnlock(mu)
    /\ Goto(t, mRet[t])
    /\ mOp' = [mOp EXCEPT ![t] = "none"]
    /\ mKey' = [mKey EXCEPT ![t] = NoKey]
    /\ mVal' = [mVal EXCEPT ![t] = 0]
    /\ mRet' = [mRet EXCEPT ![t] = "idle"]
    /\ UNCHANGED <<lockVars, internalMap, mRes, mapOps, testVars>>

\* the steps of a Map method that is under way
MapStep(t) ==
    \/ Map_Lock(t)
    \/ Map_Grant(t)
    \/ Map_Body(t)
    \/ Map_Return(t)

(***************************************************************************)
(* TestLockableMap.  The main goroutine goes through the keys and, writes  *)
(* times per key, calls LockKey(key) and starts a goroutine that does      *)
(* Store(key, i) and then, deferred, UnlockKey(key); it then waits for all *)
(* of them and ranges over the map.  A goroutine that has finished leaves  *)
(* its place in Threads to the next one started.                           *)
(***************************************************************************)
\* lMap.LockKey(key), up to l.locksMu.Lock()
Main_LockKey ==
    /\ At(Main, "idle")
    /\ loopK <= Len(TestKeys)
    /\ locksMu = "free"
    /\ locksMu' = Main
    /\ acq' = acq + 1
    /\ key' = [key EXCEPT ![Main] = TestKeys[loopK]]
    /\ mode' = [mode EXCEPT ![Main] = "W"]
    /\ Goto(Main, "lk_find")
    /\ UNCHANGED <<locks, heap, call, vMu, uMu, ok, tmp, fnOut, ret, ilKey,
                   ilRet, ilRes, stray, rel, counter, incs, fatal>>
    /\ UNCHANGED <<mapVars, testVars>>

\* the loop is over after this round
LastRound == loopK = Len(TestKeys) /\ loopI = Writes - 1

\* go func(key, i, ch) {...}(key, i, ch), and the loops' i++ / next key: the
\* new goroutine w starts at lMap.Store(key, i), with the deferred
\* lMap.UnlockKey(key) to follow; it releases the lock Main has taken
Main_Go(w) ==
    /\ At(Main, "cs")
    /\ w # Main
    /\ pc[w] = "idle"
    /\ pc' = [pc EXCEPT ![w] = "m_lock",
                        ![Main] = IF LastRound THEN "wg_wait" ELSE "idle"]
    /\ mOp' = [mOp EXCEPT ![w] = "Store"]
    /\ mKey' = [mKey EXCEPT ![w] = key[Main]]
    /\ mVal' = [mVal EXCEPT ![w] = loopI]
    /\ mRet' = [mRet EXCEPT ![w] = "unlockKey"]
    /\ key' = [key EXCEPT ![w] = key[Main], ![Main] = NoKey]
    /\ mode' = [mode EXCEPT ![w] = "W"]
    /\ call' = [call EXCEPT ![w] = "plain"]
    /\ vMu' = [vMu EXCEPT ![w] = vMu[Main], ![Main] = nil]
    /\ loopI' = IF loopI = Writes - 1 THEN 0 ELSE loopI + 1
    /\ loopK' = IF loopI = Writes - 1 THEN loopK + 1 ELSE loopK
    /\ UNCHANGED <<locks, heap, locksMu, uMu, ok, tmp, fnOut, ret, ilKey,
                   ilRet, ilRes, acq, stray, rel, counter, incs, fatal,
                   internalMap, mu, mRes, mapOps>>

\* wg.Wait() returns once every goroutine has finished; lMap.Range(...)
Main_Wait ==
    /\ At(Main, "wg_wait")
    /\ \A w \in Threads \ {Main} : pc[w] = "idle"
    /\ mOp' = [mOp EXCEPT ![Main] = "Range"]
    /\ mRet' = [mRet EXCEPT ![Main] = "t_done"]
    /\ Goto(Main, "m_lock")
    /\ UNCHANGED <<lockVars, internalMap, mu, mKey, mVal, mRes, mapOps,
                   testVars>>

\* the steps of the test's goroutines
HandoffStep(t) ==
    \/ lockKey_Find(t)
    \/ lockKey_Inc(t)
    \/ lockKey_Return(t)
    \/ Lock_Announce(t)
    \/ Lock_Grant(t)
    \/ MapStep(t)
    \/ unlockKey_Lock(t)
    \/ unlockKey_Find(t)
    \/ unlockKey_Inc(t)
    \/ unlockKey_CleanUp(t)
    \/ unlockKey_Return(t)
    \/ Unlock(t)
    \/ Return(t)

(***************************************************************************)
(* A reentrant acquire: a goroutine inside its exclusive critical section  *)
(* calls LockKey on the key it holds.  The call is an ordinary LockKey:    *)
(* it enters lockKey, is handed the same object and goes on to vMu.Lock(). *)
(***************************************************************************)
Reenter(t) ==
    /\ At(t, "cs")
    /\ mode[t] = "W"
    /\ acq < MaxAcq
    /\ locksMu = "free"
    /\ locksMu' = t
    /\ acq' = acq + 1
    /\ call' = [call EXCEPT ![t] = "reentrant"]
    /\ Goto(t, "lk_find")
    /\ UNCHANGED <<locks, heap, key, mode, vMu, uMu, ok, tmp, fnOut, ret, ilKey,
                   ilRet, ilRes, stray, rel, counter, incs, fatal>>
    /\ UNCHANGED <<mapVars, testVars>>

(***************************************************************************)
(* The specifications.                                                     *)
(*   Spec        goroutines call LockKey / RLockKey, run their own code    *)
(*               and call the matching UnlockKey / RUnlockKey, once; any   *)
(*               of them may call IsLocked.                                *)
(*   DuringSpec  the same, and critical sections may be fn of              *)
(*               LockKeyDuring / RLockKeyDuring.                           *)
(*   MisuseSpec  as Spec, and goroutines may also release what they do not *)
(*               hold, or release a second time.                           *)
(*   FairSpec    as Spec, under a fair scheduler.                          *)
(*   ReentrantSpec  as Spec, and a holder may call LockKey on its key.      *)
(*   MapSpec     matched calls and calls of the Map's methods.             *)
(*   HandoffSpec TestLockableMap, under a fair scheduler.                  *)
(***************************************************************************)
\* the steps of a call that is under way
Progress(t) ==
    \/ lockKey_Find(t)
    \/ lockKey_Inc(t)
    \/ lockKey_Return(t)
    \/ Lock_Announce(t)
    \/ Lock_Grant(t)
    \/ RLock(t)
    \/ fn_Read(t)
    \/ own_Finish(t)
    \/ unlockKey_Lock(t)
    \/ unlockKey_Find(t)
    \/ unlockKey_Inc(t)
    \/ unlockKey_CleanUp(t)
    \/ unlockKey_Return(t)
    \/ Unlock(t)
    \/ RUnlock(t)
    \/ Return(t)

\* the steps of an IsLocked call that is under way
Query(t) ==
    \/ IsLocked_Read(t)
    \/ IsLocked_Return(t)

Run(t) ==
    \/ Progress(t)
    \/ Query(t)
    \/ \E k \in Keys : IsLocked_Lock(t, k)

Next ==
    \E t \in Threads :
        \/ \E k \in Keys : LockKey(t, k)
        \/ \E k \in Keys : RLockKey(t, k)
        \/ Run(t)

DuringNext ==
    \E t \in Threads :
        \/ \E k \in Keys : acq < MaxAcqLow /\ LockKey(t, k)
        \/ \E k \in Keys : acq < MaxAcqLow /\ RLockKey(t, k)
        \/ \E out \in Outcomes : fn_Finish(t, out)
        \/ Run(t)

MisuseNext ==
    \E t \in Threads :
        \/ \E k \in Keys : acq < MaxAcqLow /\ LockKey(t, k)
        \/ \E k \in Keys : acq < MaxAcqLow /\ RLockKey(t, k)
        \/ \E k \in Keys : StrayUnlockKey(t, k)
        \/ \E k \in Keys : StrayRUnlockKey(t, k)
        \/ ReleaseAgain(t)
        \/ Run(t)

LowNext ==
    \E t \in Threads :
        \/ \E k \in Keys : acq < MaxAcqLow /\ LockKey(t, k)
        \/ \E k \in Keys : acq < MaxAcqLow /\ RLockKey(t, k)
        \/ Run(t)

\* The scheduler runs every goroutine that can take a step, and Go's mutexes
\* do not starve a waiter: sync.Mutex hands the lock to a goroutine that has
\* waited too long, and a sync.RWMutex writer that unlocks lets the readers
\* that waited for it in before the next writer.  A goroutine is at one step
\* of its call at a time, so fairness to Progress(t) is fairness to the step
\* it is at; a critical section ends (its holder does not query IsLocked for
\* ever instead of finishing) because IsLocked's steps are not steps of
\* Progress.
Fairness ==
    \A t \in Threads :
        /\ SF_vars(Progress(t))
        /\ WF_vars(Query(t))

Spec == Init /\ [][Next]_vars

FairSpec == Init /\ [][LowNext]_vars /\ Fairness

DuringSpec == Init /\ [][DuringNext]_vars

MisuseSpec == Init /\ [][MisuseNext]_vars

\* as Spec, and a goroutine may call LockKey on the key it holds exclusively
ReentrantNext ==
    \E t \in Threads :
        \/ \E k \in Keys : LockKey(t, k)
        \/ \E k \in Keys : RLockKey(t, k)
        \/ Reenter(t)
        \/ Run(t)

ReentrantSpec == Init /\ [][ReentrantNext]_vars

\* TestLockableMap, under a fair scheduler (see Fairness)
HandoffNext ==
    \/ Main_LockKey
    \/ \E w \in Threads : Main_Go(w)
    \/ Main_Wait
    \/ \E t \in Threads : HandoffStep(t)

HandoffFairness ==
    /\ SF_vars(Main_LockKey)
    /\ SF_vars(\E w \in Threads : Main_Go(w))
    /\ WF_vars(Main_Wait)
    /\ \A t \in Threads : SF_vars(HandoffStep(t))

HandoffSpec == Init /\ [][HandoffNext]_vars /\ HandoffFairness

\* goroutines lock and unlock keys with matched calls and call the Map's
\* methods, holding a key or not
MapNext ==
    \E t \in Threads :
        \/ \E k \in Keys : acq < MaxAcqMap /\ LockKey(t, k)
        \/ \E k \in Keys : acq < MaxAcqMap /\ RLockKey(t, k)
        \/ Progress(t)
        \/ \E k \in Keys, v \in Vals : Store(t, k, v)
        \/ \E k \in Keys : Delete(t, k)
        \/ \E k \in Keys : Load(t, k)
        \/ Range(t)
        \/ MapStep(t)

MapSpec == Init /\ [][MapNext]_vars


(***************************************************************************)
(* Where a goroutine is in its call.                                       *)
(***************************************************************************)
\* in IsLocked, called from inside the critical section
InIsLockedFromCS(t) == pc[t] \in {"il_read", "il_ret"} /\ ilRet[t] = "cs"

\* inside the critical section: the lock is granted and the caller's code
\* (or fn) has not ended
InCS(t) == pc[t] \in {"cs", "cs2"} \/ InIsLockedFromCS(t)

\* the call is a release with no acquisition of its own behind it
Unmatched(t) == call[t] \in {"stray", "again"}

\* the lock is granted and unlockKey has not yet counted the release
Holding(t) ==
    /\ ~Unmatched(t)
    /\ InCS(t) \/ pc[t] \in {"unlockKey", "ul_find", "ul_inc"}

\* lockKey has counted the request and handed out vMu[t]; the goroutine waits
\* for the lock
Waiting(t) == pc[t] \in {"lk_ret", "Lock", "LockWait", "RLock"}

\* lockKey has counted the request and unlockKey has not yet counted the
\* release
Handed(t) == Waiting(t) \/ Holding(t)

\* the key's entry is t's business: from lockKey's lookup to tryCleanUp
Outstanding(t) ==
    /\ ~Unmatched(t)
    /\ pc[t] \in {"lk_inc", "ul_clean"} \/ Handed(t)

(***************************************************************************)
(* C1.  Mutual exclusion per key: of the goroutines that took the same key *)
(* with LockKey, at most one is inside its critical section at any time;   *)
(* so no increment of the key's shared counter is lost: the counter equals *)
(* the number of exclusive critical sections that have ended.              *)
(***************************************************************************)
C1_MutualExclusion ==
    /\ \A t, u \in Threads :
          (t # u /\ key[t] = key[u] /\ mode[t] = "W" /\ mode[u] = "W")
              => ~(InCS(t) /\ InCS(u))
    /\ \A k \in Keys : counter[k] = incs[k]

\* three exclusive acquisitions of "a" were handed the same object, and all
\* three increments are in the counter
C1_Witness ==
    /\ \A t \in Threads : pc[t] = "idle"
    /\ counter["a"] = 3
    /\ Len(heap) = 1
    /\ heap[1].currentVersion = 3

(***************************************************************************)
(* C2.  Shared / exclusive per key: while a LockKey holder is inside its   *)
(* critical section, no other goroutine holds the key (in either mode): an *)
(* exclusive acquire is granted only once every holder has left its        *)
(* critical section and had its release counted.  Readers may be inside    *)
(* together (the witness).                                                 *)
(***************************************************************************)
C2_SharedExclusive ==
    \A t, u \in Threads :
        (t # u /\ key[t] = key[u] /\ InCS(t) /\ mode[t] = "W") => ~Holding(u)

\* two readers of "a" inside together while a writer of "a" waits for them
C2_Witness ==
    \E t, u, w \in Threads :
        /\ t # u
        /\ InCS(t) /\ mode[t] = "R" /\ key[t] = "a"
        /\ InCS(u) /\ mode[u] = "R" /\ key[u] = "a"
        /\ pc[w] = "LockWait" /\ key[w] = "a"

(***************************************************************************)
(* C3.  No premature drain: as long as a goroutine that was handed the     *)
(* key's lock object has not had its release counted, the key's entry is   *)
(* in the map and is that object; so all goroutines with an outstanding    *)
(* acquisition of a key contend on one object.                             *)
(***************************************************************************)
C3_NoPrematureDrain ==
    \A t \in Threads :
        Handed(t) => MapOk(locks, key[t]) /\ locks[key[t]] = vMu[t]

\* a holder's release has been counted and has left the entry in place for
\* a goroutine that waits on the same object
C3_Witness ==
    \E t, u \in Threads :
        /\ t # u
        /\ pc[t] = "Unlock" /\ pc[u] \in {"Lock", "LockWait"}
        /\ key[t] = key[u] /\ uMu[t] = vMu[u]
        /\ MapOk(locks, key[u])

(***************************************************************************)
(* C4.  No leaked entries: the release that makes completedVersion equal   *)
(* currentVersion removes the entry before it gives up locksMu; a key with *)
(* no acquisition outstanding has no entry; and an acquire that finds the  *)
(* key without one starts from a fresh object, both counters 0.            *)
(***************************************************************************)
C4_NoLeakedEntries ==
    /\ \A k \in Keys :
          (\A t \in Threads : ~(Outstanding(t) /\ key[t] = k))
              => ~MapOk(locks, k)
    /\ \A t \in Threads :
          (pc[t] = "ul_ret" /\ ok[t]
             /\ heap[uMu[t]].completedVersion = heap[uMu[t]].currentVersion)
              => ~MapOk(locks, key[t])
    /\ \A t \in Threads :
          (pc[t] = "lk_inc"
             /\ \A u \in Threads : u # t => ~(Outstanding(u) /\ key[u] = key[t]))
              => /\ heap[vMu[t]] = NewVersionedMutex
                 /\ \A u \in Threads : u # t => vMu[u] # vMu[t] /\ uMu[u] # vMu[t]

\* two RLockKey("a") shared the first object and both were released; the
\* map is empty again; a later acquire of "a" is about to count itself on a
\* second, fresh object
C4_Witness ==
    \E t \in Threads :
        /\ Len(heap) = 2
        /\ heap[1].currentVersion = 2 /\ heap[1].completedVersion = 2
        /\ heap[1].readers = 0 /\ ~heap[1].wLocked
        /\ pc[t] = "lk_inc" /\ key[t] = "a" /\ vMu[t] = 2
        /\ DOMAIN locks = {"a"}
        /\ \A u \in Threads : u # t => pc[u] = "idle"

(***************************************************************************)
(* C5.  IsLocked(k) reflects outstanding acquisitions: its result is true  *)
(* exactly when some acquisition of k has been counted by lockKey and its  *)
(* release has not been counted by unlockKey; so it is false for a key     *)
(* never acquired, true between an acquire and its release, and false      *)
(* right after the last release.                                           *)
(***************************************************************************)
C5_IsLockedReflects ==
    \A t \in Threads :
        pc[t] = "il_ret"
            => (ilRes[t] <=> \E u \in Threads : Handed(u) /\ key[u] = ilKey[t])

\* IsLocked(k) called by k's holder from inside its critical section says
\* true
C5_Witness ==
    \E t \in Threads :
        /\ pc[t] = "il_ret" /\ ilRet[t] = "cs"
        /\ ilKey[t] = key[t] /\ ilRes[t]


(***************************************************************************)
(* C6.  Release of an absent key is a no-op: when unlockKey finds no entry *)
(* for the key, the call returns without unlocking anything, and the map,  *)
(* every object's counters and every object's lock stay as they were.      *)
(***************************************************************************)
C6_AbsentReleaseNoOp ==
    [][\A t \in Threads :
          /\ (pc[t] = "ul_find" /\ ~MapOk(locks, key[t]) /\ pc'[t] # pc[t])
                => /\ pc'[t] = "ul_ret" /\ ~ok'[t] /\ uMu'[t] = nil
                   /\ locks' = locks /\ heap' = heap /\ ~fatal'
          /\ (pc[t] = "ul_ret" /\ ~ok[t] /\ pc'[t] # pc[t])
                => /\ pc'[t] = "return"
                   /\ locks' = locks /\ heap' = heap /\ ~fatal'
      ]_vars

\* a release of a key that has no entry has returned, while another key is
\* held
C6_Witness ==
    \E t \in Threads :
        /\ pc[t] = "return" /\ Unmatched(t) /\ ~ok[t] /\ rel[t] = 0
        /\ ~MapOk(locks, key[t])
        /\ DOMAIN locks # {}

(***************************************************************************)
(* C7.  UnlockKey / RUnlockKey can safely be called multiple times on the  *)
(* same key: a release repeated for the same acquisition changes neither   *)
(* the map nor any object's counters nor any object's lock, and does not   *)
(* end the process.                                                        *)
(***************************************************************************)
C7_SecondReleaseHarmless ==
    [][\A t \in Threads :
          (call[t] = "again" /\ pc'[t] # pc[t])
              => locks' = locks /\ heap' = heap /\ fatal' = fatal
      ]_vars

(***************************************************************************)
(* C8.  Non-interference between keys.  A goroutine that acquires key k    *)
(* while no other goroutine has a call on k under way never waits for      *)
(* another key's lock.                                                     *)
(***************************************************************************)
\* no other goroutine has a call on k under way
AloneOn(t, k) == \A u \in Threads : u # t => key[u] # k

\* every other goroutine is idle, or holds a key's lock, or is blocked in
\* vMu.Lock() / vMu.RLock()
OthersHoldOrWait(t) ==
    \A u \in Threads :
        u # t => \/ pc[u] = "idle"
                 \/ Holding(u)
                 \/ pc[u] \in {"Lock", "LockWait", "RLock"}

\* t's acquire of k can take its next step
Proceeds(t, k) ==
    \/ pc[t] = "idle" /\ ENABLED LockKey(t, k) /\ ENABLED RLockKey(t, k)
    \/ key[t] = k /\ pc[t] \in {"lk_find", "lk_inc"} /\ ENABLED Progress(t)
    \/ key[t] = k /\ Waiting(t) /\ ENABLED Progress(t)

\* t is acquiring k, or free to start
Acquiring(t, k) ==
    \/ pc[t] = "idle" /\ acq < MaxAcq
    \/ key[t] = k /\ (pc[t] \in {"lk_find", "lk_inc"} \/ Waiting(t))

\* the claim as stated: the acquire runs to completion on the caller's own
\* steps, whatever the goroutines that hold or wait on other keys are doing
C8_NeverWaits ==
    \A t \in Threads, k \in Keys :
        (Acquiring(t, k) /\ AloneOn(t, k) /\ OthersHoldOrWait(t))
            => Proceeds(t, k)

\* as amended: the one thing the acquire may wait for is locksMu, at its
\* first statement, and the goroutine that holds locksMu can always step
C8_NonInterference ==
    /\ \A t \in Threads, k \in Keys :
          (Acquiring(t, k) /\ AloneOn(t, k))
              => \/ Proceeds(t, k)
                 \/ pc[t] = "idle" /\ locksMu \in Threads \ {t}
    /\ \A u \in Threads :
          locksMu = u => ENABLED (Progress(u) \/ Query(u))

\* a goroutine takes "b" with LockKey and is granted it while another is
\* inside its critical section on "a" and a third waits for "a"
C8_Witness ==
    \E t, u, w \in Threads :
        /\ pc[t] = "cs" /\ key[t] = "b" /\ mode[t] = "W"
        /\ InCS(u) /\ key[u] = "a" /\ mode[u] = "W"
        /\ pc[w] \in {"Lock", "LockWait"} /\ key[w] = "a"

(***************************************************************************)
(* C9.  Scoped usage releases on every exit path: while fn runs the key's  *)
(* lock is held in the call's mode; when LockKeyDuring / RLockKeyDuring    *)
(* returns, however fn ended, exactly one release of the key has been      *)
(* counted, on the object that was locked, and the caller gets fn's        *)
(* outcome unchanged; with no other acquirer the key has no entry.         *)
(***************************************************************************)
C9_DuringReleases ==
    \A t \in Threads :
        /\ InCS(t)
              => /\ locks[key[t]] = vMu[t]
                 /\ mode[t] = "W" => heap[vMu[t]].writing
                 /\ mode[t] = "R" => heap[vMu[t]].readers > 0
                 /\ rel[t] = 0
        /\ call[t] = "during" => rel[t] <= 1
        /\ (pc[t] = "return" /\ call[t] = "during")
              => /\ rel[t] = 1 /\ ok[t] /\ uMu[t] = vMu[t]
                 /\ ret[t] = fnOut[t] /\ fnOut[t] \in Outcomes
                 /\ (\A u \in Threads : u # t => ~(Outstanding(u) /\ key[u] = key[t]))
                        => ~MapOk(locks, key[t])

\* LockKeyDuring whose fn panicked has released the key and passes the
\* panic on
C9_Witness ==
    \E t \in Threads :
        /\ pc[t] = "return" /\ call[t] = "during" /\ mode[t] = "W"
        /\ fnOut[t] = "panic" /\ ret[t] = "panic"
        /\ rel[t] = 1 /\ ~MapOk(locks, key[t])
        /\ ~heap[vMu[t]].writing

(***************************************************************************)
(* C10.  Progress: under a fair scheduler, with every granted goroutine    *)
(* going on to its matching release, every LockKey / RLockKey call whose   *)
(* request lockKey has taken up is eventually granted, and every entry of  *)
(* the map is eventually removed.                                          *)
(***************************************************************************)
C10_Progress ==
    /\ \A t \in Threads : (pc[t] = "lk_find") ~> (pc[t] = "cs")
    /\ \A k \in Keys : MapOk(locks, k) ~> ~MapOk(locks, k)

\* a LockKey waits for a reader and a writer waits behind it
C10_Witness ==
    \E t, u, w \in Threads :
        /\ pc[t] = "LockWait" /\ heap[vMu[t]].readers > 0
        /\ InCS(u) /\ mode[u] = "R" /\ vMu[u] = vMu[t]
        /\ pc[w] \in {"idle", "Lock"}

(***************************************************************************)
(* C11.  Counter invariant: every versionedMutex ever created has          *)
(* 0 <= completedVersion <= currentVersion in every reachable state, also  *)
(* after releases that match no acquisition or repeat one, and neither     *)
(* counter ever decreases.                                                 *)
(***************************************************************************)
C11_CounterInvariant ==
    /\ [](\A i \in 1..Len(heap) :
            /\ 0 <= heap[i].completedVersion
            /\ heap[i].completedVersion <= heap[i].currentVersion)
    /\ [][\A i \in 1..Len(heap) :
            /\ heap'[i].currentVersion >= heap[i].currentVersion
            /\ heap'[i].completedVersion >= heap[i].completedVersion]_vars

\* a release with no acquisition behind it has been counted on an object
\* that another goroutine was handed, and has caught up with currentVersion
C11_Witness ==
    \E t, u \in Threads :
        /\ t # u
        /\ Unmatched(t) /\ pc[t] = "ul_clean"
        /\ Handed(u) /\ vMu[u] = uMu[t]
        /\ heap[uMu[t]].completedVersion = heap[uMu[t]].currentVersion

(***************************************************************************)
(* C14.  Release unlocks the object that was locked.  UnlockKey and        *)
(* RUnlockKey look the key up again, and with matched calls the object     *)
(* unlockKey returns is the one the caller's LockKey / RLockKey locked,    *)
(* it is held in the mode of the release when vMu.Unlock() / vMu.RUnlock() *)
(* runs, and so the process never ends in a fatal error.                   *)
(***************************************************************************)
C14_ReleaseUnlocksLocked ==
    /\ ~fatal
    /\ \A t \in Threads :
          /\ pc[t] \in {"ul_inc", "ul_clean", "ul_ret", "Unlock", "RUnlock"}
                => ok[t] /\ uMu[t] = vMu[t]
          /\ pc[t] = "Unlock" => WriteHeld(heap[uMu[t]])
          /\ pc[t] = "RUnlock" => ReadHeld(heap[uMu[t]])

\* a release whose bookkeeping removed the entry is about to unlock its
\* object while the key is already mapped to a fresh object made for
\* another goroutine
C14_Witness ==
    \E t, u \in Threads :
        /\ t # u
        /\ pc[t] \in {"Unlock", "RUnlock"}
        /\ key[u] = key[t] /\ Handed(u)
        /\ MapOk(locks, key[t]) /\ locks[key[t]] # uMu[t]
        /\ vMu[u] = locks[key[t]]

(***************************************************************************)
(* C15.  Acquire bookkeeping is atomic and exact.  A LockKey / RLockKey    *)
(* call does its lookup-or-insert and its currentVersion++ inside one      *)
(* locksMu critical section and before it blocks on the key's lock; a new  *)
(* object starts with both counters 0; each call adds exactly 1 to         *)
(* currentVersion, so an object's currentVersion - completedVersion is the *)
(* number of callers handed it and not yet released; and callers of the    *)
(* same key that are counted at the same time share one object.            *)
(***************************************************************************)
\* the goroutines that lockKey has counted on object o and unlockKey has
\* not yet
HandedOn(o) == {t \in Threads : Handed(t) /\ vMu[t] = o}

C15_AcquireExact ==
    /\ \A t \in Threads :
          pc[t] \in {"lk_find", "lk_inc", "lk_ret"} => locksMu = t
    /\ \A t \in Threads :
          pc[t] \in {"lk_inc", "lk_ret"}
              => MapOk(locks, key[t]) /\ locks[key[t]] = vMu[t]
    /\ \A o \in 1..Len(heap) :
          heap[o].currentVersion
              = heap[o].completedVersion + Cardinality(HandedOn(o))
    /\ \A t, u \in Threads :
          (Handed(t) /\ Handed(u) /\ key[t] = key[u]) => vMu[t] = vMu[u]

\* two first acquires of an absent key have both been counted: one object,
\* currentVersion = 2, nothing completed
C15_Witness ==
    \E t, u \in Threads :
        /\ t # u
        /\ Waiting(t) /\ Handed(u) /\ key[t] = key[u]
        /\ Len(heap) = 1
        /\ vMu[t] = 1 /\ vMu[u] = 1
        /\ heap[1].currentVersion = 2 /\ heap[1].completedVersion = 0

(***************************************************************************)
(* C16.  Registry mutex discipline.  locksMu is held only inside lockKey,  *)
(* unlockKey and IsLocked; a goroutine blocked in vMu.Lock() / vMu.RLock() *)
(* does not hold it; UnlockKey / RUnlockKey have finished the bookkeeping  *)
(* and given locksMu back when they call vMu.Unlock() / vMu.RUnlock(); and *)
(* the goroutine that holds locksMu can always take its next step.         *)
(***************************************************************************)
\* the statements that run under locksMu
UnderLocksMu ==
    {"lk_find", "lk_inc", "lk_ret", "ul_find", "ul_inc", "ul_clean", "ul_ret",
     "il_read", "il_ret"}

C16_MutexDiscipline ==
    /\ locksMu \in Threads \cup {"free"}
    /\ \A t \in Threads :
          /\ (locksMu = t) <=> (pc[t] \in UnderLocksMu)
          /\ pc[t] \in {"Lock", "LockWait", "RLock", "Unlock", "RUnlock"}
                => locksMu # t
          /\ locksMu = t => ENABLED (Progress(t) \/ Query(t))

\* a goroutine is blocked in vMu.Lock() behind a holder while a third is
\* inside lockKey with locksMu
C16_Witness ==
    \E t, u, w \in Threads :
        /\ pc[t] = "LockWait" /\ InCS(u) /\ vMu[u] = vMu[t]
        /\ locksMu = w /\ pc[w] = "lk_inc" /\ key[w] = key[t]

(***************************************************************************)
(* C17.  No entry is present but drained.  Whenever locksMu is free, every *)
(* entry of the map has currentVersion > completedVersion, also after      *)
(* releases that match no acquisition or repeat one; so the result         *)
(* IsLocked computes for a key is whether the key has an entry.            *)
(***************************************************************************)
C17_NoDrainedEntry ==
    /\ locksMu = "free"
          => \A k \in DOMAIN locks :
                heap[locks[k]].currentVersion > heap[locks[k]].completedVersion
    /\ \A t \in Threads :
          pc[t] = "il_ret" => (ilRes[t] <=> MapOk(locks, ilKey[t]))

\* an unmatched release has been counted on a present entry and left it in
\* place, and afterwards IsLocked has found the key locked
C17_Witness ==
    \E t, u \in Threads, k \in Keys :
        /\ pc[t] = "il_ret" /\ ilKey[t] = k /\ ilRes[t]
        /\ Unmatched(u) /\ key[u] = k /\ rel[u] = 1
        /\ MapOk(locks, k) /\ uMu[u] = locks[k]

(***************************************************************************)
(* C18.  IsLocked is a non-blocking, read-only query.  It waits for        *)
(* locksMu and for nothing else: with locksMu free the call gets in and    *)
(* runs to its return whatever the state of the key's lock, also while     *)
(* another goroutine holds the key exclusively; and no step of IsLocked    *)
(* changes the map, a counter or a lock.                                   *)
(***************************************************************************)
\* the step from this state to the next is a step of goroutine t's IsLocked
IsLockedStep(t) ==
    /\ pc'[t] # pc[t]
    /\ pc[t] \in {"il_read", "il_ret"} \/ pc'[t] = "il_read"

C18_IsLockedReadOnly ==
    /\ [](\A t \in Threads :
            /\ (~fatal /\ pc[t] \in {"idle", "cs"} /\ locksMu = "free")
                  => \A k \in Keys : ENABLED IsLocked_Lock(t, k)
            /\ pc[t] \in {"il_read", "il_ret"} => ENABLED Query(t))
    /\ [][\A t \in Threads :
            IsLockedStep(t) => locks' = locks /\ heap' = heap]_vars

\* IsLocked has answered true for a key while another goroutine is inside
\* its exclusive critical section on that key
C18_Witness ==
    \E t, u \in Threads :
        /\ t # u
        /\ pc[t] = "il_ret" /\ ilRes[t] /\ ilRet[t] = "idle"
        /\ InCS(u) /\ mode[u] = "W" /\ key[u] = ilKey[t]
        /\ heap[vMu[u]].writing

(***************************************************************************)
(* C13.  RUnlockKey is equivalent to calling UnlockKey: from every         *)
(* reachable state the two calls, made on the same key, leave the same     *)
(* map, the same counters and the same state of the key's lock.            *)
(***************************************************************************)
\* the registry after a whole UnlockKey(k) (md = "W") or RUnlockKey(k)
\* (md = "R") that runs from map m and heap h with no other goroutine
\* stepping in between: unlockKey's bookkeeping, then vMu.Unlock() or
\* vMu.RUnlock(), which is fatal on a lock not held in that mode
ReleaseOutcome(m, h, k, md) ==
    IF ~MapOk(m, k)
      THEN [locks |-> m, heap |-> h, fatal |-> FALSE]
      ELSE LET o == MapGet(m, k)
               h1 == [h EXCEPT ![o] = IncCompleted(@)]
               m1 == tryCleanUp(m, k, h1[o])
               held == IF md = "W" THEN WriteHeld(h1[o]) ELSE ReadHeld(h1[o])
               h2 == IF md = "W" THEN [h1 EXCEPT ![o] = RWUnlock(@)]
                                 ELSE [h1 EXCEPT ![o] = RWRUnlock(@)]
           IN  IF held THEN [locks |-> m1, heap |-> h2, fatal |-> FALSE]
                       ELSE [locks |-> m1, heap |-> h1, fatal |-> TRUE]

C13_ReleaseEquivalent ==
    locksMu = "free"
        => \A k \in Keys :
              ReleaseOutcome(locks, heap, k, "R")
                  = ReleaseOutcome(locks, heap, k, "W")

(***************************************************************************)
(* C19.  No reentrancy.  A goroutine that holds a key exclusively and      *)
(* calls LockKey on it again is counted by lockKey (currentVersion++) and  *)
(* then blocks in vMu.Lock() for ever: it has no enabled step and never    *)
(* leaves that statement; the key's entry stays in the map, mapped to the  *)
(* same object, with at least two acquisitions not completed, so IsLocked  *)
(* stays true for the key.                                                 *)
(***************************************************************************)
\* t holds key[t] exclusively and its second LockKey has reached vMu.Lock()
ReenteredAtLock(t) == call[t] = "reentrant" /\ pc[t] = "Lock"

C19_ReentrantBlocks ==
    /\ [](\A t \in Threads :
            call[t] = "reentrant"
                => pc[t] \in {"lk_find", "lk_inc", "lk_ret", "Lock"})
    /\ [](\A t \in Threads :
            ReenteredAtLock(t)
                => /\ ~ENABLED Progress(t)
                   /\ MapOk(locks, key[t]) /\ locks[key[t]] = vMu[t]
                   /\ heap[vMu[t]].writing
                   /\ heap[vMu[t]].currentVersion
                         >= heap[vMu[t]].completedVersion + 2
                   /\ IsLockedResult(locks, heap, key[t]))
    /\ [][\A t \in Threads :
            ReenteredAtLock(t)
                => /\ call'[t] = "reentrant" /\ pc'[t] = "Lock"
                   /\ MapOk(locks', key[t])]_vars

\* the goroutine is blocked in its second LockKey, another goroutine waits
\* for the same key behind it, and IsLocked has answered true for the key
C19_Witness ==
    \E t, u, w \in Threads :
        /\ ReenteredAtLock(t)
        /\ u # t /\ pc[u] = "Lock" /\ key[u] = key[t]
        /\ pc[w] = "il_ret" /\ ilKey[w] = key[t] /\ ilRes[w]

(***************************************************************************)
(* C20.  Key locks are advisory for the Map.  Load, Store, Delete and      *)
(* Range take m.mu and nothing of the registry: a goroutine can call them  *)
(* whether it holds a key or not and whoever holds the key they name; what *)
(* a call waits for is m.mu alone, whose holder can always step, so a      *)
(* holder of K's exclusive lock that calls Store(K, v) is not deadlocked;  *)
(* and no step of these methods changes the registry's map, a counter or   *)
(* a lock of the registry.                                                 *)
(***************************************************************************)
\* goroutine t is inside a Map method
InMap(t) == pc[t] \in {"m_lock", "m_wait", "m_body", "m_ret"}

\* the step from this state to the next is a step of a Map method of t
MapMethodStep(t) == pc'[t] # pc[t] /\ (InMap(t) \/ pc'[t] = "m_lock")

C20_MapAdvisory ==
    /\ [](\A t \in Threads :
            /\ (~fatal /\ pc[t] \in {"idle", "cs"} /\ mapOps < MaxMapOps)
                  => /\ \A k \in Keys, v \in Vals : ENABLED Store(t, k, v)
                     /\ \A k \in Keys : ENABLED Delete(t, k)
                     /\ \A k \in Keys : ENABLED Load(t, k)
                     /\ ENABLED Range(t)
            /\ (~fatal /\ pc[t] = "m_lock" /\ ~mu.wLocked)
                  => ENABLED Map_Lock(t)
            /\ (~fatal /\ pc[t] = "m_wait" /\ mu.readers = 0)
                  => ENABLED Map_Grant(t)
            /\ (~fatal /\ pc[t] \in {"m_body", "m_ret"}) => ENABLED MapStep(t)
            /\ (~fatal /\ InMap(t)) => \E u \in Threads : ENABLED MapStep(u))
    /\ [][\A t \in Threads :
            MapMethodStep(t)
                => locks' = locks /\ heap' = heap /\ locksMu' = locksMu]_vars

\* a goroutine inside its exclusive critical section on a key has stored
\* under that key, while a goroutine that holds nothing is in a Store or
\* Delete of the same key
C20_Witness ==
    \E t, u \in Threads :
        /\ t # u
        /\ pc[t] = "m_ret" /\ mOp[t] = "Store" /\ mRet[t] = "cs"
        /\ mode[t] = "W" /\ mKey[t] = key[t] /\ heap[vMu[t]].writing
        /\ pc[u] = "m_lock" /\ mOp[u] \in WriteOps /\ mRet[u] = "idle"
        /\ mKey[u] = key[t]

(***************************************************************************)
(* C12.  Cross-thread hand-off and ordering.  In TestLockableMap the main  *)
(* goroutine takes the key's lock and another goroutine releases it, which *)
(* never ends in a fatal error; when the main goroutine is granted the     *)
(* lock for round i > 0 of a key, the map holds i - 1 under that key (the  *)
(* Store of round i - 1 has happened); the test ends: all goroutines       *)
(* finish, and the Range at the end sees writes - 1 under every key.       *)
(***************************************************************************)
\* the map the Range at the end of the test must see
FinalMap == [k \in {TestKeys[i] : i \in 1..Len(TestKeys)} |-> Writes - 1]

C12_HandoffOrdered ==
    /\ [](~fatal)
    /\ []((pc[Main] = "cs" /\ loopI > 0)
            => /\ MapOk(internalMap, key[Main])
               /\ internalMap[key[Main]] = loopI - 1)
    /\ [](pc[Main] = "t_done"
            => /\ mRes[Main] = FinalMap
               /\ \A w \in Threads \ {Main} : pc[w] = "idle"
               /\ DOMAIN locks = {})
    /\ <>(pc[Main] = "t_done")

\* the main goroutine waits in vMu.Lock() for the lock it took in the round
\* before, which the goroutine it started has still to release
C12_Witness ==
    \E w \in Threads \ {Main} :
        /\ pc[Main] = "Lock" /\ loopI > 0
        /\ key[w] = key[Main] /\ vMu[w] = vMu[Main]
        /\ pc[w] = "m_body" /\ mOp[w] = "Store" /\ mVal[w] = loopI - 1

====
